---- MODULE Spec2Model ----
(***************************************************************************)
(* Incremental ABNF parser combinators (partim/abnf): the buffer-level     *)
(* rules of parse.rs, the numeric decoders of core.rs, the token lifters   *)
(* of parse/token.rs, the rule combinators of parse/rule.rs and the IPv4 / *)
(* IPv6 address parsers of ipaddr.rs.                                      *)
(*                                                                         *)
(* A buffer (EasyBuf / BytesMut) is a sequence of octets 0..255.  Every    *)
(* rule is an operator from a buffer to an outcome record                  *)
(*     [st |-> "Ready" | "NotReady" | "Err", val |-> <<...>>, buf |-> b]   *)
(* where buf is the buffer as the rule left it (&mut EasyBuf) and val the  *)
(* value carried by Ok(Async::Ready(v)), flattened to a sequence.          *)
(***************************************************************************)
EXTENDS Integers, Sequences, FiniteSets, TLC

VARIABLES
    buf,     \* the caller's buffer
    rest,    \* octets the transport has not delivered yet
    before,  \* the buffer as it was when the last rule was called
    op,      \* the rule called last, "none" before any call
    arg,     \* the parameters of that call
    res,     \* its outcome
    tok      \* the Token atop the buffer: <<>> if none lives, else <<t>>

vars == <<buf, rest, before, op, arg, res, tok>>

\* ------------------------------------------------------------------ octets
COLON == 58
DOT == 46
SP == 32
ZERO == 48

\* ---------------------------------------------------------------- outcomes
Ready(v, b) == [st |-> "Ready", val |-> v, buf |-> b]
NotReady(b) == [st |-> "NotReady", val |-> <<>>, buf |-> b]
Err(b) == [st |-> "Err", val |-> <<>>, buf |-> b]

NoRes == [st |-> "none", val |-> <<>>, buf |-> <<>>]

\* let x = e; ...: The({ ... x ... : x \in {e}}) names the value of e once,
\* as a let binding of the source does.
The(S) == CHOOSE x \in S : TRUE

\* EasyBuf::drain_to(n): the first n octets leave the buffer.
drain_to(b, n) == SubSeq(b, n + 1, Len(b))
drained(b, n) == SubSeq(b, 1, n)

\* ------------------------------------------------------ core.rs predicates
test_alpha(ch) == (ch >= 65 /\ ch <= 90) \/ (ch >= 97 /\ ch <= 122)
test_digit(ch) == ch >= 48 /\ ch <= 57

test_hexdig(ch) ==
    \/ (ch >= 48 /\ ch <= 57)
    \/ (ch >= 65 /\ ch <= 70)
    \/ (ch >= 97 /\ ch <= 102)

translate_hexdig_lower(ch) ==
    IF ch >= 48 /\ ch <= 57 THEN ch - 48
    ELSE IF ch >= 65 /\ ch <= 70 THEN ch - 65 + 10
    ELSE ch - 97

translate_hexdig(ch) ==
    IF ch >= 48 /\ ch <= 57 THEN ch - 48
    ELSE IF ch >= 65 /\ ch <= 70 THEN ch - 65 + 10
    ELSE ch - 97 + 10

\* ------------------------------------------------------- parse.rs: cats
\* A test closure (Fn(u8) -> bool) is the set of the octets it accepts.
Octets == 0..255
AlphaTest == {ch \in Octets : test_alpha(ch)}
DigitTest == {ch \in Octets : test_digit(ch)}
HexdigTest == {ch \in Octets : test_hexdig(ch)}

\* Index (0-based) of the first octet failing test, or -1 (None).
first_failing(b, test) ==
    LET bad == {i \in 1..Len(b) : b[i] \notin test}
    IN  IF bad = {} THEN -1
        ELSE (CHOOSE i \in bad : \A j \in bad : i <= j) - 1

cats(b, test) ==
    IF Len(b) < 1 THEN NotReady(b)
    ELSE The({IF end = -1 THEN NotReady(b)
              ELSE IF end = 0 THEN Err(b)
              ELSE Ready(drained(b, end), drain_to(b, end))
              : end \in {first_failing(b, test)}})

\* A run of digits reaching the end of the buffer taken as complete.
digits_final(b) ==
    IF Len(b) >= 1 /\ first_failing(b, DigitTest) = -1 THEN Ready(b, <<>>)
    ELSE cats(b, DigitTest)

digits(b) == cats(b, DigitTest)

\* A run of hex digits reaching the end of the buffer taken as complete.
hexdigs_final(b) ==
    IF Len(b) >= 1 /\ first_failing(b, HexdigTest) = -1 THEN Ready(b, <<>>)
    ELSE cats(b, HexdigTest)

hexdigs(b) == cats(b, HexdigTest)

\* ------------------------------------------------ core.rs: numeric decoders
\* The three-digit value narrowed to 8 bits without the range check.
u8_digits_wraps(b) ==
    The({IF r.st # "Ready" THEN r
         ELSE LET d == r.val
              IN  CASE Len(d) = 1 -> Ready(<<d[1] - ZERO>>, r.buf)
                    [] Len(d) = 2 ->
                         Ready(<<(d[1] - ZERO) * 10 + d[2] - ZERO>>, r.buf)
                    [] Len(d) = 3 ->
                         Ready(<<((d[1] - ZERO) * 100 + (d[2] - ZERO) * 10
                                      + (d[3] - ZERO)) % 256>>, r.buf)
                    [] OTHER -> Err(r.buf)
         : r \in {digits(b)}})

\* The tens digit taken as its character code.
u8_digits_raw_tens(b) ==
    The({IF r.st # "Ready" THEN r
         ELSE LET d == r.val
              IN  CASE Len(d) = 1 -> Ready(<<d[1] - ZERO>>, r.buf)
                    [] Len(d) = 2 ->
                         Ready(<<(d[1] * 10 + d[2] - ZERO) % 256>>, r.buf)
                    [] Len(d) = 3 ->
                         LET n == (d[1] - ZERO) * 100 + (d[2] - ZERO) * 10
                                      + (d[3] - ZERO)
                         IN  IF n > 255 THEN Err(r.buf)
                             ELSE Ready(<<n>>, r.buf)
                    [] OTHER -> Err(r.buf)
         : r \in {digits(b)}})

\* The values u8_digits computes on the way for the digit run d, each with
\* the width (in bits) of the type it is computed in.
u8_steps(d) ==
    CASE Len(d) = 1 -> <<[w |-> 8, v |-> d[1] - ZERO]>>
      [] Len(d) = 2 ->
           <<[w |-> 8, v |-> d[1] - ZERO],
             [w |-> 8, v |-> (d[1] - ZERO) * 10],
             [w |-> 8, v |-> (d[1] - ZERO) * 10 + d[2]],
             [w |-> 8, v |-> (d[1] - ZERO) * 10 + d[2] - ZERO]>>
      [] Len(d) = 3 ->
           <<[w |-> 8, v |-> d[1] - ZERO],
             [w |-> 16, v |-> (d[1] - ZERO) * 100],
             [w |-> 8, v |-> d[2] - ZERO],
             [w |-> 16, v |-> (d[2] - ZERO) * 10],
             [w |-> 16, v |-> (d[1] - ZERO) * 100 + (d[2] - ZERO) * 10],
             [w |-> 8, v |-> d[3] - ZERO],
             [w |-> 16, v |-> (d[1] - ZERO) * 100 + (d[2] - ZERO) * 10
                                  + (d[3] - ZERO)]>>
      [] OTHER -> <<>>

u8_digits(b) ==
    The({IF r.st # "Ready" THEN r
         ELSE LET d == r.val
              IN  CASE Len(d) = 1 -> Ready(<<d[1] - ZERO>>, r.buf)
                    [] Len(d) = 2 ->
                         Ready(<<(d[1] - ZERO) * 10 + d[2] - ZERO>>, r.buf)
                    [] Len(d) = 3 ->
                         LET n == (d[1] - ZERO) * 100 + (d[2] - ZERO) * 10
                                      + (d[3] - ZERO)
                         IN  IF n > 255 THEN Err(r.buf)
                             ELSE Ready(<<n>>, r.buf)
                    [] OTHER -> Err(r.buf)
         : r \in {digits(b)}})

\* A run of five or more hex digits cut to its first four.
u16_hexdigs_truncates(b) ==
    The({IF r.st # "Ready" THEN r
         ELSE LET d == r.val
                  h(i) == translate_hexdig(d[i])
              IN  CASE Len(d) = 1 -> Ready(<<h(1)>>, r.buf)
                    [] Len(d) = 2 -> Ready(<<h(1) * 16 + h(2)>>, r.buf)
                    [] Len(d) = 3 ->
                         Ready(<<h(1) * 256 + h(2) * 16 + h(3)>>, r.buf)
                    [] OTHER ->
                         Ready(<<h(1) * 4096 + h(2) * 256 + h(3) * 16 + h(4)>>,
                               r.buf)
         : r \in {hexdigs(b)}})

u16_hexdigs(b) ==
    The({IF r.st # "Ready" THEN r
         ELSE LET d == r.val
                  h(i) == translate_hexdig(d[i])
              IN  CASE Len(d) = 1 -> Ready(<<h(1)>>, r.buf)
                    [] Len(d) = 2 -> Ready(<<h(1) * 16 + h(2)>>, r.buf)
                    [] Len(d) = 3 ->
                         Ready(<<h(1) * 256 + h(2) * 16 + h(3)>>, r.buf)
                    [] Len(d) = 4 ->
                         Ready(<<h(1) * 4096 + h(2) * 256 + h(3) * 16 + h(4)>>,
                               r.buf)
                    [] OTHER -> Err(r.buf)
         : r \in {hexdigs(b)}})

\* ------------------------------------------------- parse/token.rs: Token
TokenNew(bytes) == [bytes |-> bytes, end |-> 0]

\* Token::first
first(token) ==
    IF token.end < Len(token.bytes)
    THEN [st |-> "Ready", val |-> <<token.bytes[token.end + 1]>>]
    ELSE [st |-> "NotReady", val |-> <<>>]

\* Token::advance (the assert holds at every call the model makes)
advance(token, count) == [token EXCEPT !.end = @ + count]

\* token::octet: outcome with the token as the rule left it
token_octet(token, value) ==
    LET f == first(token)
    IN  IF f.st = "NotReady" THEN [st |-> "NotReady", tok |-> token]
        ELSE IF f.val[1] = value
             THEN [st |-> "Ready", tok |-> advance(token, 1)]
             ELSE [st |-> "Err", tok |-> token]

\* Token::split: drains the token from the underlying buffer
split(token) ==
    [span |-> drained(token.bytes, token.end),
     bytes |-> drain_to(token.bytes, token.end)]

\* token::skip_octet = skip(bytes, |token| octet(token, value)), with
\* skip = try_ready!(parse(..)) and parse = try_ready!(parseop) ; split()
skip_octet(bytes, value) ==
    LET r == token_octet(TokenNew(bytes), value)
    IN  IF r.st = "Ready" THEN Ready(<<>>, split(r.tok).bytes)
        ELSE IF r.st = "NotReady" THEN NotReady(bytes)
        ELSE Err(bytes)

\* Outcomes of the rules atop a token: tok is the token as the rule left it.
TReady(v, token) == [st |-> "Ready", val |-> v, tok |-> token]
TNotReady(token) == [st |-> "NotReady", val |-> <<>>, tok |-> token]
TErr(token) == [st |-> "Err", val |-> <<>>, tok |-> token]

\* Token::remaining
remaining(token) == drain_to(token.bytes, token.end)

\* The assert of Token::advance left out.
advance_assert_off(token, count) == count >= 0

\* The assert of Token::advance.
advance_assert(token, count) == token.end + count <= Len(token.bytes)

\* Token::advance_if
advance_if(token, test) ==
    The({IF f.st = "NotReady" THEN TNotReady(token)
         ELSE IF f.val[1] \in test THEN TReady(<<TRUE>>, advance(token, 1))
         ELSE TReady(<<FALSE>>, token)
         : f \in {first(token)}})

\* Token::expect stepping over the octet that failed the test.
expect_steps_over(token, test) ==
    The({IF f.st = "NotReady" THEN TNotReady(token)
         ELSE IF f.val[1] \in test THEN TReady(<<>>, advance(token, 1))
         ELSE TErr(advance(token, 1))
         : f \in {first(token)}})

\* Token::expect
expect(token, test) ==
    The({IF f.st = "NotReady" THEN TNotReady(token)
         ELSE IF f.val[1] \in test THEN TReady(<<>>, advance(token, 1))
         ELSE TErr(token)
         : f \in {first(token)}})

\* token::opt_octet
opt_octet(token, value) ==
    The({IF f.st = "NotReady" THEN TNotReady(token)
         ELSE IF f.val[1] = value THEN TReady(<<TRUE>>, advance(token, 1))
         ELSE TReady(<<FALSE>>, token)
         : f \in {first(token)}})

\* token::cat
token_cat(token, test) ==
    The({IF r.st # "Ready" THEN r
         ELSE IF r.val[1] THEN TReady(<<>>, r.tok)
         ELSE TErr(r.tok)
         : r \in {advance_if(token, test)}})

\* The loop of token::opt_cats.
RECURSIVE opt_cats_loop(_, _)
opt_cats_loop(token, test) ==
    The({IF r.st # "Ready" THEN r
         ELSE IF ~r.val[1] THEN TReady(<<TRUE>>, r.tok)
         ELSE opt_cats_loop(r.tok, test)
         : r \in {advance_if(token, test)}})

\* A run reaching the end of the buffer taken as complete.
token_opt_cats_final(token, test) ==
    The({IF r.st # "Ready" THEN r
         ELSE IF ~r.val[1] THEN TReady(<<FALSE>>, r.tok)
         ELSE The({IF l.st = "NotReady" THEN TReady(<<TRUE>>, l.tok) ELSE l
                   : l \in {opt_cats_loop(r.tok, test)}})
         : r \in {advance_if(token, test)}})

\* token::opt_cats
token_opt_cats(token, test) ==
    The({IF r.st # "Ready" THEN r
         ELSE IF ~r.val[1] THEN TReady(<<FALSE>>, r.tok)
         ELSE opt_cats_loop(r.tok, test)
         : r \in {advance_if(token, test)}})

\* token::cats
token_cats(token, test) ==
    The({IF c.st # "Ready" THEN c
         ELSE The({IF o.st # "Ready" THEN o ELSE TReady(<<>>, o.tok)
                   : o \in {token_opt_cats(c.tok, test)}})
         : c \in {token_cat(token, test)}})

\* u8::to_ascii_lowercase, folding every octet with bit 5 clear.
to_ascii_lowercase_any(ch) == IF (ch \div 32) % 2 = 0 THEN ch + 32 ELSE ch

\* u8::to_ascii_lowercase
to_ascii_lowercase(ch) == IF ch >= 65 /\ ch <= 90 THEN ch + 32 ELSE ch

\* <[u8]>::eq_ignore_ascii_case
eq_ignore_ascii_case(a, b) ==
    /\ Len(a) = Len(b)
    /\ \A i \in 1..Len(a) :
          to_ascii_lowercase(a[i]) = to_ascii_lowercase(b[i])

min(a, b) == IF a <= b THEN a ELSE b

\* token::literal
token_literal(token, lit) ==
    LET len == Len(remaining(token))
        litlen == Len(lit)
        minlen == min(len, litlen)
        reduced == SubSeq(remaining(token), 1, minlen)
        litreduced == SubSeq(lit, 1, minlen)
    IN  IF ~eq_ignore_ascii_case(reduced, litreduced) THEN TErr(token)
        ELSE IF minlen < litlen THEN TNotReady(token)
        ELSE TReady(<<>>, advance(token, litlen))

\* parse.rs: literal
literal(b, lit) ==
    LET len == Len(b)
        litlen == Len(lit)
        minlen == min(len, litlen)
        reduced == SubSeq(b, 1, minlen)
        litreduced == SubSeq(lit, 1, minlen)
    IN  IF ~eq_ignore_ascii_case(reduced, litreduced) THEN Err(b)
        ELSE IF minlen < litlen THEN NotReady(b)
        ELSE Ready(<<>>, drain_to(b, litlen))

\* parse.rs: opt_cats; the value is None (<<>>) or Some(run) (<<run>>).
opt_cats(b, test) ==
    The({IF end = -1 THEN NotReady(b)
         ELSE IF end = 0 THEN Ready(<<>>, b)
         ELSE Ready(<<drained(b, end)>>, drain_to(b, end))
         : end \in {first_failing(b, test)}})

\* token::parse with the token drained even when parseop did not complete.
parse_commits_always(r) ==
    [st |-> r.st, val |-> split(r.tok).span, buf |-> split(r.tok).bytes]

\* token::parse(bytes, parseop): r is the outcome of parseop on
\* Token::new(bytes), r.tok the token as it left it.
parse(r) ==
    IF r.st # "Ready" THEN [st |-> r.st, val |-> <<>>, buf |-> r.tok.bytes]
    ELSE Ready(split(r.tok).span, split(r.tok).bytes)

\* token::skip(bytes, parsef)
skip(r) ==
    The({IF p.st # "Ready" THEN p ELSE Ready(<<>>, p.buf)
         : p \in {parse(r)}})

\* ------------------------------------------------- parse/rule.rs: group
\* group(buf, parse): r is the outcome of running the closure parse on the
\* buffer, orig_buf the snapshot taken before.  NotReady and Err put the
\* snapshot back, Ready keeps the buffer as the closure left it.
group_keeps_err(orig_buf, r) ==
    IF r.st = "NotReady" THEN [r EXCEPT !.buf = orig_buf] ELSE r

group_keeps_pending(orig_buf, r) ==
    IF r.st = "Err" THEN [r EXCEPT !.buf = orig_buf] ELSE r

group(orig_buf, r) ==
    The({IF x.st \in {"NotReady", "Err"} THEN [x EXCEPT !.buf = orig_buf]
         ELSE x
         : x \in {r}})

\* parse.rs: try, the same snapshot and match as group
try(orig_buf, r) ==
    The({IF x.st \in {"NotReady", "Err"} THEN [x EXCEPT !.buf = orig_buf]
         ELSE x
         : x \in {r}})

\* --------------------------------------------- macros.rs: try_ready! chains
\* One sub-rule of a concatenation.
rule_step(s, b) ==
    CASE s = "hex" -> u16_hexdigs(b)
      [] s = "dec" -> u8_digits(b)
      [] s = "colon" -> skip_octet(b, COLON)
      [] s = "dot" -> skip_octet(b, DOT)

\* rule1 ; rule2 ; ... each under try_ready!: the first outcome that is not
\* Ready is returned at once, with the buffer as drained so far.
RECURSIVE try_ready_chain(_, _, _)
try_ready_chain(b, steps, acc) ==
    IF steps = <<>> THEN Ready(acc, b)
    ELSE The({IF r.st # "Ready" THEN r
              ELSE try_ready_chain(r.buf, Tail(steps), acc \o r.val)
              : r \in {rule_step(Head(steps), b)}})

\* --------------------------------------------------- ipaddr.rs: IPv4
Ipv4Steps == <<"dec", "dot", "dec", "dot", "dec", "dot", "dec">>

parse_ipv4_addr(b) ==
    group(b, try_ready_chain(b, Ipv4Steps, <<>>))

\* --------------------------------------------------- ipaddr.rs: IPv6
FullSteps ==
    <<"hex", "colon", "hex", "colon", "hex", "colon", "hex", "colon",
      "hex", "colon", "hex", "colon", "hex", "colon", "hex">>

ipv6_full(b) ==
    group(b, try_ready_chain(b, FullSteps, <<>>))

V4FullSteps ==
    <<"hex", "colon", "hex", "colon", "hex", "colon", "hex", "colon",
      "hex", "colon", "hex", "colon",
      "dec", "dot", "dec", "dot", "dec", "dot", "dec">>

ipv6v4_full_body(b) ==
    The({IF r.st # "Ready" THEN r
         ELSE LET v == r.val
              IN  Ready(<<v[1], v[2], v[3], v[4], v[5], v[6],
                          v[7] * 256 + v[8], v[9] * 256 + v[10]>>, r.buf)
         : r \in {try_ready_chain(b, V4FullSteps, <<>>)}})

ipv6v4_full(b) == group(b, ipv6v4_full_body(b))

ZeroGroups == [i \in 1..8 |-> 0]

\* The for loop of ipv6_comp_left, entered at iteration i with res = acc.
\* The value is the array followed by the count.
RECURSIVE comp_left_loop(_, _, _, _)
comp_left_loop(b, max, i, acc) ==
    IF i >= max THEN Ready(acc \o <<max>>, b)
    ELSE The({IF v.st # "Ready" THEN v
              ELSE The({IF s.st # "Ready" THEN s
                        ELSE IF Len(s.buf) > 0 /\ s.buf[1] = COLON
                             THEN Ready([acc EXCEPT ![i + 1] = v.val[1]]
                                            \o <<i + 1>>,
                                        drain_to(s.buf, 1))
                             ELSE comp_left_loop(
                                      s.buf, max, i + 1,
                                      [acc EXCEPT ![i + 1] = v.val[1]])
                        : s \in {skip_octet(v.buf, COLON)}})
              : v \in {u16_hexdigs(b)}})

ipv6_comp_left(b, max) ==
    IF Len(b) < 3 THEN NotReady(b)
    ELSE IF b[1] = COLON /\ b[2] = COLON
         THEN Ready(ZeroGroups \o <<0>>, drain_to(b, 2))
         ELSE comp_left_loop(b, max, 0, ZeroGroups)

\* The for loop of ipv6_comp_right, entered at iteration i with res = acc.
RECURSIVE comp_right_loop(_, _, _, _)
comp_right_loop(b, max, i, acc) ==
    IF i >= max THEN Ready(acc \o <<max>>, b)
    ELSE The({IF v.st = "NotReady" THEN NotReady(v.buf)
              ELSE IF v.st = "Err"
                   THEN IF i = 0 THEN Ready(acc \o <<0>>, v.buf)
                        ELSE Err(v.buf)
              ELSE The({IF s.st = "Ready"
                        THEN IF i = max - 1
                             THEN Ready([acc EXCEPT ![i + 1] = v.val[1]]
                                            \o <<max>>, s.buf)
                             ELSE comp_right_loop(
                                      s.buf, max, i + 1,
                                      [acc EXCEPT ![i + 1] = v.val[1]])
                        ELSE Ready([acc EXCEPT ![i + 1] = v.val[1]]
                                       \o <<i + 1>>, s.buf)
                        : s \in {skip_octet(v.buf, COLON)}})
              : v \in {u16_hexdigs(b)}})

ipv6_comp_right(b, max) == comp_right_loop(b, max, 0, ZeroGroups)

RECURSIVE comp_place_fixed_slot(_, _, _, _)
comp_place_fixed_slot(left, right, right_count, i) ==
    IF i >= right_count THEN left
    ELSE comp_place_fixed_slot(
            [left EXCEPT ![(8 - right_count + 1) + 1] = right[i + 1]],
            right, right_count, i + 1)

\* for i in 0..right_count { left[8 - right_count + i] = right[i] }
RECURSIVE comp_place(_, _, _, _)
comp_place(left, right, right_count, i) ==
    IF i >= right_count THEN left
    ELSE comp_place([left EXCEPT ![(8 - right_count + i) + 1] = right[i + 1]],
                    right, right_count, i + 1)

ipv6_comp_body(b) ==
    The({IF l.st # "Ready" THEN l
         ELSE The({IF r.st # "Ready" THEN r
                   ELSE Ready(comp_place(SubSeq(l.val, 1, 8),
                                         SubSeq(r.val, 1, 8), r.val[9], 0),
                              r.buf)
                   : r \in {ipv6_comp_right(l.buf, 6 - l.val[9])}})
         : l \in {ipv6_comp_left(b, 6)}})

ipv6_comp(b) == group(b, ipv6_comp_body(b))

\* for i in 0..right_count { left[6 - right_count + 1] = right[i] }
RECURSIVE v4comp_place(_, _, _, _)
v4comp_place(left, right, right_count, i) ==
    IF i >= right_count THEN left
    ELSE v4comp_place([left EXCEPT ![(6 - right_count + 1) + 1] = right[i + 1]],
                      right, right_count, i + 1)

ipv6v4_comp_body(b) ==
    The({IF l.st # "Ready" THEN l
         ELSE The({IF r.st # "Ready" THEN r
                   ELSE The({IF v4.st # "Ready" THEN v4
                             ELSE Ready(
                                 [v4comp_place(SubSeq(l.val, 1, 8),
                                               SubSeq(r.val, 1, 8),
                                               r.val[9], 0)
                                    EXCEPT
                                      ![7] = v4.val[1] * 256 + v4.val[2],
                                      ![8] = v4.val[3] * 256 + v4.val[4]],
                                 v4.buf)
                             : v4 \in {parse_ipv4_addr(r.buf)}})
                   : r \in {ipv6_comp_right(l.buf, 4 - l.val[9])}})
         : l \in {ipv6_comp_left(b, 4)}})

ipv6v4_comp(b) == group(b, ipv6v4_comp_body(b))

\* NotReady taken as a failed alternative.
parse_ipv6_addr_skips_pending(b) ==
    The({IF r1.st = "Ready" THEN r1 ELSE
         The({IF r2.st = "Ready" THEN r2 ELSE
              The({IF r3.st = "Ready" THEN r3 ELSE
                   The({IF r4.st # "Err" THEN r4 ELSE Err(r4.buf)
                        : r4 \in {ipv6v4_comp(r3.buf)}})
                   : r3 \in {ipv6v4_full(r2.buf)}})
              : r2 \in {ipv6_comp(r1.buf)}})
         : r1 \in {ipv6_full(b)}})

\* try_fail!: Ready and NotReady return at once, Err goes on to the next
\* alternative, which runs on the buffer as the failed one left it.
parse_ipv6_addr(b) ==
    The({IF r1.st # "Err" THEN r1 ELSE
         The({IF r2.st # "Err" THEN r2 ELSE
              The({IF r3.st # "Err" THEN r3 ELSE
                   The({IF r4.st # "Err" THEN r4 ELSE Err(r4.buf)
                        : r4 \in {ipv6v4_comp(r3.buf)}})
                   : r3 \in {ipv6v4_full(r2.buf)}})
              : r2 \in {ipv6_comp(r1.buf)}})
         : r1 \in {ipv6_full(b)}})

\* ------------------------------------------------------------ the inputs
\* The byte stream a transport delivers to the buffer, one octet at a time.
MaxLeft == 8
MaxRight == 6
MaxShort == 4
MaxSplice == 3
MaxHead == 7
MaxRun == 5

\* Hex groups as written and as 16-bit values:
\* "1", "a2", "B03", "fFfF", "0", "7c", "D", "19".
GroupTab ==
    << [t |-> <<49>>, v |-> 1],
       [t |-> <<97, 50>>, v |-> 162],
       [t |-> <<66, 48, 51>>, v |-> 2819],
       [t |-> <<102, 70, 102, 70>>, v |-> 65535],
       [t |-> <<48>>, v |-> 0],
       [t |-> <<55, 99>>, v |-> 124],
       [t |-> <<68>>, v |-> 13],
       [t |-> <<49, 57>>, v |-> 25] >>

GroupAt(k) == GroupTab[((k - 1) % 8) + 1]

\* "192.0.2.1"
V4Text == <<49, 57, 50, 46, 48, 46, 50, 46, 49>>
V4Val == <<192, 0, 2, 1>>

\* Groups from..from+n-1 of the table joined by ':'.
RECURSIVE GroupsText(_, _)
GroupsText(from, n) ==
    IF n = 0 THEN <<>>
    ELSE GroupAt(from).t \o (IF n > 1 THEN <<COLON>> ELSE <<>>)
            \o GroupsText(from + 1, n - 1)

\* l leading groups, "::" if c, r trailing groups, the IPv4 text if v.
Lit(l, c, r, v) ==
    GroupsText(1, l)
        \o (IF c THEN <<COLON, COLON>> ELSE <<>>)
        \o GroupsText(l + 1, r)
        \o (IF v
            THEN (IF (c /\ r > 0) \/ (~c /\ l > 0) THEN <<COLON>> ELSE <<>>)
                    \o V4Text
            ELSE <<>>)

Literals ==
    {Lit(l, c, r, v) \o <<SP>> :
        l \in 0..MaxLeft, c \in BOOLEAN, r \in 0..MaxRight, v \in BOOLEAN}

\* The literals of the tests of ipaddr.rs and of the documented examples.
\* "FEDC:BA98:7654:3210:FEDC:BA98:7654:3210 "
ExFull == <<70, 69, 68, 67, 58, 66, 65, 57, 56, 58, 55, 54, 53, 52, 58, 51, 50, 49, 48, 58, 70, 69, 68, 67, 58, 66, 65, 57, 56, 58, 55, 54, 53, 52, 58, 51, 50, 49, 48, 32>>
\* "1080:0:0:0:8:800:200C:417A "
ExFullZeros == <<49, 48, 56, 48, 58, 48, 58, 48, 58, 48, 58, 56, 58, 56, 48, 48, 58, 50, 48, 48, 67, 58, 52, 49, 55, 65, 32>>
\* "1080::8:800:200C:417A "
ExComp == <<49, 48, 56, 48, 58, 58, 56, 58, 56, 48, 48, 58, 50, 48, 48, 67, 58, 52, 49, 55, 65, 32>>
\* "FF01::43 "
ExCompShort == <<70, 70, 48, 49, 58, 58, 52, 51, 32>>
\* "::1 "
ExLoopback == <<58, 58, 49, 32>>
\* ":: "
ExUnspecified == <<58, 58, 32>>
\* "::FFFF:192.0.2.1 "
ExMapped == <<58, 58, 70, 70, 70, 70, 58, 49, 57, 50, 46, 48, 46, 50, 46, 49, 32>>
\* "127.0.0.1 "
ExV4 == <<49, 50, 55, 46, 48, 46, 48, 46, 49, 32>>
\* "256.0.0.1 "
ExV4Range == <<50, 53, 54, 46, 48, 46, 48, 46, 49, 32>>
\* "1.2.3"
ExV4Partial == <<49, 46, 50, 46, 51>>
Examples ==
    {ExFull,
     ExFullZeros,
     ExComp,
     ExCompShort,
     ExLoopback,
     ExUnspecified,
     ExMapped,
     ExV4,
     ExV4Range,
     ExV4Partial}

\* Eight table groups from offset o joined by ':', then a space.
FullForms == {GroupsText(o, 8) \o <<SP>> : o \in 1..8}

Alphabet == {49, COLON, DOT, SP}

RECURSIVE Strings(_, _)
Strings(S, n) ==
    IF n = 0 THEN {<<>>}
    ELSE LET shorter == Strings(S, n - 1)
         IN  shorter \cup {Append(s, x) : s \in shorter, x \in S}

Shorts == Strings(Alphabet, MaxShort)

\* n groups "1:" followed by a short string.
RECURSIVE Head1(_)
Head1(n) == IF n = 0 THEN <<>> ELSE <<49, COLON>> \o Head1(n - 1)

Spliced ==
    {Head1(n) \o s : n \in 1..MaxHead, s \in Strings(Alphabet, MaxSplice)}

\* Runs of the digits '2', '5' and '6' followed by a space.
Runs == {s \o <<SP>> : s \in Strings({50, 53, 54}, MaxRun) \ {<<>>}}

\* Decimal octets as written and as values:
\* "0", "7", "10", "99", "100", "192", "249", "255".
OctetTab ==
    << [t |-> <<48>>, v |-> 0],
       [t |-> <<55>>, v |-> 7],
       [t |-> <<49, 48>>, v |-> 10],
       [t |-> <<57, 57>>, v |-> 99],
       [t |-> <<49, 48, 48>>, v |-> 100],
       [t |-> <<49, 57, 50>>, v |-> 192],
       [t |-> <<50, 52, 57>>, v |-> 249],
       [t |-> <<50, 53, 53>>, v |-> 255] >>

OctetAt(k) == OctetTab[((k - 1) % 8) + 1]

\* Digit runs that are no octet: "256", "999", "1000", "0000".
BadOctets == <<<<50, 53, 54>>, <<57, 57, 57>>, <<49, 48, 48, 48>>,
               <<48, 48, 48, 48>>>>

\* Octets written with extraneous leading zeros: "01", "004", "00", "010".
ZeroLedOctets == <<<<48, 49>>, <<48, 48, 52>>, <<48, 48>>, <<48, 49, 48>>>>

\* Four octet texts joined by '.'.
Dotted(q) == q[1] \o <<DOT>> \o q[2] \o <<DOT>> \o q[3] \o <<DOT>> \o q[4]

\* The octets i, j, i+1, j+1 of the table.
Quad(i, j) == <<OctetAt(i), OctetAt(j), OctetAt(i + 1), OctetAt(j + 1)>>
QuadText(i, j) == Dotted([k \in 1..4 |-> Quad(i, j)[k].t])
QuadVal(i, j) == [k \in 1..4 |-> Quad(i, j)[k].v]

\* Quad(pos, pos + 2) with the octet at pos replaced by the text t.
QuadWith(pos, t) ==
    Dotted([k \in 1..4 |-> IF k = pos THEN t ELSE Quad(pos, pos + 2)[k].t])

\* Bytes that end a run of digits: ' ', '.', 'a'.
Delims == {SP, DOT, 97}

V4Good == {QuadText(i, j) \o <<d>> : i \in 1..8, j \in 1..8, d \in Delims}
V4Bad == {QuadWith(pos, BadOctets[k]) \o <<SP>> : pos \in 1..4, k \in 1..4}
V4ZeroLed ==
    {QuadWith(pos, ZeroLedOctets[k]) \o <<SP>> : pos \in 1..4, k \in 1..4}

Inputs ==
    Literals \cup Shorts \cup Spliced \cup Runs \cup Examples \cup FullForms

\* Dotted quads, well-formed and not, and short strings.
V4Inputs ==
    V4Good \cup V4Bad \cup V4ZeroLed \cup Shorts
        \cup {ExV4, ExV4Range, ExV4Partial}

\* Right halves: n groups joined by ':' and what may stand behind them.
RightTails == {<<SP>>, <<COLON, SP>>, <<COLON>> \o V4Text \o <<SP>>}
RightHalves ==
    {GroupsText(o, n) \o t : o \in 1..8, n \in 1..MaxRight, t \in RightTails}
RightInputs == RightHalves \cup Shorts \cup Spliced \cup Runs

\* ------------------------------------------------------- the state machine
Init ==
    /\ rest \in Inputs
    /\ buf = <<>>
    /\ before = <<>>
    /\ op = "none"
    /\ arg = <<>>
    /\ res = NoRes
    /\ tok = <<>>

\* The transport appends the next octet; the caller polls again only after
\* NotReady or before any call.
Feed ==
    /\ op = "none" \/ res.st = "NotReady"
    /\ rest # <<>>
    /\ buf' = Append(buf, Head(rest))
    /\ rest' = Tail(rest)
    /\ before' = buf'
    /\ op' = "none"
    /\ arg' = <<>>
    /\ res' = NoRes
    /\ UNCHANGED tok

Call(name, r) ==
    /\ op = "none"
    /\ op' = name
    /\ before' = buf
    /\ res' = r
    /\ buf' = res'.buf
    /\ arg' = <<>>
    /\ UNCHANGED <<rest, tok>>

ParseIpv4Addr == Call("ipv4", parse_ipv4_addr(buf))
ParseIpv6Addr == Call("ipv6", parse_ipv6_addr(buf))
Ipv6Full == Call("full", ipv6_full(buf))
Ipv6Comp == Call("comp", ipv6_comp(buf))
Ipv6v4Full == Call("v4full", ipv6v4_full(buf))
Ipv6v4Comp == Call("v4comp", ipv6v4_comp(buf))
U8Digits == Call("u8", u8_digits(buf))
U16Hexdigs == Call("u16", u16_hexdigs(buf))

\* A rule called with an argument besides the buffer.
CallWith(name, a, r) ==
    /\ op = "none"
    /\ op' = name
    /\ arg' = a
    /\ before' = buf
    /\ res' = r
    /\ buf' = res'.buf
    /\ UNCHANGED <<rest, tok>>

Ipv6CompRight(max) ==
    CallWith("right", [max |-> max], ipv6_comp_right(buf, max))

Next ==
    \/ Feed
    \/ ParseIpv4Addr
    \/ ParseIpv6Addr
    \/ Ipv6Full
    \/ Ipv6Comp
    \/ Ipv6v4Full
    \/ Ipv6v4Comp
    \/ U8Digits
    \/ U16Hexdigs

Spec == Init /\ [][Next]_vars

\* ------------------------------------------------ the IPv4 rules alone
InitV4 ==
    /\ rest \in V4Inputs
    /\ buf = <<>>
    /\ before = <<>>
    /\ op = "none"
    /\ arg = <<>>
    /\ res = NoRes
    /\ tok = <<>>

NextV4 ==
    \/ Feed
    \/ ParseIpv4Addr
    \/ U8Digits

SpecV4 == InitV4 /\ [][NextV4]_vars

\* ------------------------------------- the right half of a compressed form
InitRight ==
    /\ rest \in RightInputs
    /\ buf = <<>>
    /\ before = <<>>
    /\ op = "none"
    /\ arg = <<>>
    /\ res = NoRes
    /\ tok = <<>>

NextRight ==
    \/ Feed
    \/ \E max \in 0..MaxRight : Ipv6CompRight(max)

SpecRight == InitRight /\ [][NextRight]_vars

\* --------------------------------------- the numeric decoders on numbers
MaxDecN == 1100
MaxHexN == 65600

\* format!("{}", n): the decimal digits of n, most significant first.
RECURSIVE ToDec(_)
ToDec(n) ==
    IF n < 10 THEN <<ZERO + n>>
    ELSE Append(ToDec(n \div 10), ZERO + (n % 10))

\* One digit of format!("{:x}") ('a' is 97) or format!("{:X}") ('A' is 65).
HexChar(d, upper) ==
    IF d < 10 THEN ZERO + d ELSE (IF upper THEN 65 ELSE 97) + d - 10

RECURSIVE ToHex(_, _)
ToHex(n, upper) ==
    IF n < 16 THEN <<HexChar(n, upper)>>
    ELSE Append(ToHex(n \div 16, upper), HexChar(n % 16, upper))

\* A number and the format it is written in; "none" writes nothing.
NumArgs ==
    [n : 0..MaxDecN, base : {"d"}] \cup [n : 0..MaxHexN, base : {"x", "X"}]
        \cup {[n |-> 2568, base |-> "d"], [n |-> 459350, base |-> "x"],
               [n |-> 4078, base |-> "x"], [n |-> 0, base |-> "none"]}

NumText(a) ==
    CASE a.base = "d" -> ToDec(a.n)
      [] a.base = "x" -> ToHex(a.n, FALSE)
      [] a.base = "X" -> ToHex(a.n, TRUE)
      [] OTHER -> <<>>

\* EasyBuf::from(format!("{} ", i).into_bytes())
InitNum ==
    /\ arg \in NumArgs
    /\ buf = NumText(arg) \o <<SP>>
    /\ rest = <<>>
    /\ before = buf
    /\ op = "none"
    /\ res = NoRes
    /\ tok = <<>>

U8OfText == CallWith("u8", arg, u8_digits(buf))
U16OfText == CallWith("u16", arg, u16_hexdigs(buf))

NextNum ==
    \/ U8OfText
    \/ U16OfText

SpecNum == InitNum /\ [][NextNum]_vars

\* ------------------------------------------- group and try on any closure
Outcomes == {"Ready", "NotReady", "Err"}

\* A parsing closure that drains the first k octets of the buffer it is
\* given and then finishes with outcome st, carrying what it drained.
closure(k, st, b) == [st |-> st, val |-> drained(b, k), buf |-> drain_to(b, k)]

GroupRule(k, st) ==
    CallWith("group", [drain |-> k, st |-> st],
             group(buf, closure(k, st, buf)))

TryRule(k, st) ==
    CallWith("try", [drain |-> k, st |-> st],
             try(buf, closure(k, st, buf)))

InitGroup ==
    /\ buf \in Shorts
    /\ rest = <<>>
    /\ before = buf
    /\ op = "none"
    /\ arg = <<>>
    /\ res = NoRes
    /\ tok = <<>>

NextGroup ==
    \E k \in 0..Len(buf), st \in Outcomes :
        \/ GroupRule(k, st)
        \/ TryRule(k, st)

SpecGroup == InitGroup /\ [][NextGroup]_vars

\* ------------------------------------------------ a token atop a buffer
MaxTok == 4

\* 'a', 'A', '@', '1'
TokAlphabet == {97, 65, 64, 49}
TokBufs == Strings(TokAlphabet, MaxTok)
Tests == {AlphaTest, DigitTest}
Values == {97, 64}
\* "aA", "`1", "a@1"
Lits == {<<97, 65>>, <<96, 49>>, <<97, 64, 49>>}

InitToken ==
    /\ buf \in TokBufs
    /\ rest = <<>>
    /\ before = buf
    /\ op = "none"
    /\ arg = <<>>
    /\ res = NoRes
    /\ tok = <<>>

\* Token::new(bytes); no token is made once the thread has panicked.
NewToken ==
    /\ tok = <<>>
    /\ res.st # "panic"
    /\ tok' = <<TokenNew(buf)>>
    /\ before' = buf
    /\ op' = "new"
    /\ arg' = <<>>
    /\ res' = NoRes
    /\ UNCHANGED <<buf, rest>>

\* A method or rule on the live token; r is its outcome, arg keeps the
\* offset the token had before.
TokenRule(name, a, r) ==
    /\ tok # <<>>
    /\ op' = name
    /\ arg' = [end |-> tok[1].end, with |-> a]
    /\ res' = [st |-> r.st, val |-> r.val, buf |-> r.tok.bytes]
    /\ tok' = <<r.tok>>
    /\ buf' = tok'[1].bytes
    /\ UNCHANGED <<rest, before>>

TokenFirst ==
    /\ tok # <<>>
    /\ TokenRule("first", <<>>,
                 [st |-> first(tok[1]).st, val |-> first(tok[1]).val,
                  tok |-> tok[1]])

\* Token::advance: a failed assert unwinds the thread, the token is gone.
TokenAdvance(count) ==
    /\ tok # <<>>
    /\ IF advance_assert(tok[1], count)
       THEN TokenRule("advance", count, TReady(<<>>, advance(tok[1], count)))
       ELSE /\ op' = "advance"
            /\ arg' = [end |-> tok[1].end, with |-> count]
            /\ res' = [st |-> "panic", val |-> <<>>, buf |-> buf]
            /\ tok' = <<>>
            /\ UNCHANGED <<buf, rest, before>>

TokenAdvanceIf(test) ==
    tok # <<>> /\ TokenRule("advance_if", test, advance_if(tok[1], test))

TokenExpect(test) ==
    tok # <<>> /\ TokenRule("expect", test, expect(tok[1], test))

TokenOctet(value) ==
    /\ tok # <<>>
    /\ TokenRule("octet", value,
                 [st |-> token_octet(tok[1], value).st, val |-> <<>>,
                  tok |-> token_octet(tok[1], value).tok])

TokenOptOctet(value) ==
    tok # <<>> /\ TokenRule("opt_octet", value, opt_octet(tok[1], value))

TokenCat(test) ==
    tok # <<>> /\ TokenRule("cat", test, token_cat(tok[1], test))

TokenCats(test) ==
    tok # <<>> /\ TokenRule("cats", test, token_cats(tok[1], test))

TokenOptCats(test) ==
    tok # <<>> /\ TokenRule("opt_cats", test, token_opt_cats(tok[1], test))

TokenLiteral(lit) ==
    tok # <<>> /\ TokenRule("literal", lit, token_literal(tok[1], lit))

\* Token::split and Token::skip consume the token.
TokenSplit ==
    /\ tok # <<>>
    /\ op' = "split"
    /\ arg' = [end |-> tok[1].end, with |-> <<>>]
    /\ res' = Ready(split(tok[1]).span, split(tok[1]).bytes)
    /\ buf' = res'.buf
    /\ tok' = <<>>
    /\ UNCHANGED <<rest, before>>

TokenSkip ==
    /\ tok # <<>>
    /\ op' = "skip"
    /\ arg' = [end |-> tok[1].end, with |-> <<>>]
    /\ res' = Ready(<<>>, split(tok[1]).bytes)
    /\ buf' = res'.buf
    /\ tok' = <<>>
    /\ UNCHANGED <<rest, before>>

\* The token goes out of scope without split or skip.
TokenDrop ==
    /\ tok # <<>>
    /\ op' = "drop"
    /\ arg' = [end |-> tok[1].end, with |-> <<>>]
    /\ res' = NoRes
    /\ tok' = <<>>
    /\ UNCHANGED <<buf, rest, before>>

\* A parseop that advances the token by k octets and ends with outcome st.
parseop(k, st, bytes) ==
    [st |-> st, val |-> <<>>, tok |-> advance(TokenNew(bytes), k)]

Parse(k, st) ==
    CallWith("parse", [drain |-> k, st |-> st], parse(parseop(k, st, buf)))

Skip(k, st) ==
    CallWith("skip_fn", [drain |-> k, st |-> st], skip(parseop(k, st, buf)))

Cats(test) == CallWith("buf_cats", test, cats(buf, test))
OptCats(test) == CallWith("buf_opt_cats", test, opt_cats(buf, test))
Literal(lit) == CallWith("buf_literal", lit, literal(buf, lit))

NextToken ==
    \/ NewToken
    \/ TokenFirst
    \/ \E count \in 0..MaxTok : TokenAdvance(count)
    \/ \E test \in Tests :
          \/ TokenAdvanceIf(test)
          \/ TokenExpect(test)
          \/ TokenCat(test)
          \/ TokenCats(test)
          \/ TokenOptCats(test)
          \/ Cats(test)
          \/ OptCats(test)
    \/ \E value \in Values :
          \/ TokenOctet(value)
          \/ TokenOptOctet(value)
    \/ \E lit \in Lits :
          \/ TokenLiteral(lit)
          \/ Literal(lit)
    \/ TokenSplit
    \/ TokenSkip
    \/ TokenDrop
    \/ \E k \in 0..Len(buf), st \in Outcomes :
          \/ Parse(k, st)
          \/ Skip(k, st)

SpecToken == InitToken /\ [][NextToken]_vars

\* ================================================================ claims

\* C1: group(buf, f) returns f's outcome unchanged; when f, having drained
\* any prefix of the buffer, ends NotReady or Err the buffer is as it was
\* before the call, and when f ends Ready the buffer is as f left it.
C1_GroupFrame ==
    op \in {"group", "try"} =>
        /\ res.st = arg.st
        /\ res.val = drained(before, arg.drain)
        /\ arg.st \in {"NotReady", "Err"} =>
              (buf = before /\ Len(buf) = Len(before))
        /\ arg.st = "Ready" => buf = drain_to(before, arg.drain)

C1_Witness ==
    /\ op = "group"
    /\ arg.st = "Err"
    /\ arg.drain = 2
    /\ Len(before) = 3
    /\ buf = before

\* C2: whenever parse_ipv4_addr or parse_ipv6_addr ends NotReady or Err, the
\* buffer content and length equal those before the call, whatever the
\* sub-rules and the earlier alternatives had drained.
C2_AddrRewind ==
    (op \in {"ipv4", "ipv6"} /\ res.st \in {"NotReady", "Err"}) =>
        /\ buf = before
        /\ Len(buf) = Len(before)
        /\ res.buf = before

\* parse_ipv6_addr fails although the sub-rules of the full form, run
\* without group, had drained groups and separators before failing.
C2_Witness ==
    /\ op = "ipv6"
    /\ res.st = "Err"
    /\ buf = before
    /\ LET raw == try_ready_chain(before, FullSteps, <<>>)
       IN  raw.st = "Err" /\ Len(raw.buf) + 4 <= Len(before)

\* C3: whenever u8_digits or u16_hexdigs ends NotReady or Err, the buffer
\* content and length equal those before the call.
C3_DecoderRewind ==
    (op \in {"u8", "u16"} /\ res.st \in {"NotReady", "Err"}) => buf = before

\* C4: a call of parse_ipv4_addr or parse_ipv6_addr on a prefix of the
\* stream that is decided (not NotReady) has the outcome, the value and the
\* remaining octets of one call on the whole stream; polling again after
\* NotReady with more octets therefore ends as the single call does.
Rule(name, b) ==
    IF name = "ipv4" THEN parse_ipv4_addr(b) ELSE parse_ipv6_addr(b)

C4_Resumable ==
    (op \in {"ipv4", "ipv6"} /\ res.st # "NotReady") =>
        LET whole == Rule(op, before \o rest)
        IN  /\ whole.st = res.st
            /\ whole.val = res.val
            /\ whole.buf = buf \o rest

\* The whole literal completes on the second poll: the call on the buffer
\* one octet shorter was NotReady.
C4_Witness ==
    /\ op = "ipv6"
    /\ res.st = "Ready"
    /\ rest = <<>>
    /\ Len(before) > 8
    /\ parse_ipv6_addr(SubSeq(before, 1, Len(before) - 1)).st = "NotReady"

\* The address the literal Lit(l, TRUE, r, TRUE) denotes: the leading
\* groups, zeros, the trailing groups in the slots before the last two, and
\* the IPv4 address in the last 32 bits.
ExpectV4Comp(l, r) ==
    [i \in 1..8 |->
        IF i <= l THEN GroupAt(i).v
        ELSE IF i > 6 - r /\ i <= 6 THEN GroupAt(l + i - (6 - r)).v
        ELSE IF i = 7 THEN V4Val[1] * 256 + V4Val[2]
        ELSE IF i = 8 THEN V4Val[3] * 256 + V4Val[4]
        ELSE 0]

\* "::FFFF:192.0.2.1" as an address
ExMappedAddr == <<0, 0, 0, 0, 0, 65535, 49152, 513>>

\* C5: parse_ipv6_addr on a compressed literal with an embedded IPv4 address
\* (at most 4 hex groups) and a delimiter is Ready with the IPv4 address in
\* the last 32 bits and the groups around the zero gap, the buffer left at
\* the delimiter.
C5_CompressedV4 ==
    op = "ipv6" =>
        /\ \A l \in 0..4 : \A r \in 0..(4 - l) :
              before = Lit(l, TRUE, r, TRUE) \o <<SP>> =>
                  /\ res.st = "Ready"
                  /\ res.val = ExpectV4Comp(l, r)
                  /\ buf = <<SP>>
        /\ before = ExMapped =>
              (res.st = "Ready" /\ res.val = ExMappedAddr /\ buf = <<SP>>)

\* The address of Lit(6, FALSE, 0, TRUE).
ExpectV4Full ==
    [i \in 1..8 |->
        IF i <= 6 THEN GroupAt(i).v
        ELSE IF i = 7 THEN V4Val[1] * 256 + V4Val[2]
        ELSE V4Val[3] * 256 + V4Val[4]]

\* C6: parse_ipv6_addr on six hex groups each followed by ':', a dotted
\* IPv4 literal and a delimiter is Ready with the six groups in slots 0..5
\* and the IPv4 address in the last 32 bits, the buffer left at the
\* delimiter.
C6_FullV4 ==
    (op = "ipv6" /\ before = Lit(6, FALSE, 0, TRUE) \o <<SP>>) =>
        /\ res.st = "Ready"
        /\ res.val = ExpectV4Full
        /\ buf = <<SP>>

\* The address of Lit(l, TRUE, r, FALSE).
ExpectComp(l, r) ==
    [i \in 1..8 |->
        IF i <= l THEN GroupAt(i).v
        ELSE IF i > 8 - r THEN GroupAt(l + i - (8 - r)).v
        ELSE 0]

\* C7: parse_ipv6_addr on g1:..:gL::h1:..:hR (L + R <= 6) and a delimiter
\* is Ready with g1..gL in slots 0..L-1, h1..hR in slots 8-R..7 and zero
\* between, the buffer left at the delimiter; so for "1080::8:800:200C:417A ",
\* "FF01::43 ", "::1 " and ":: ".
C7_Compressed ==
    op = "ipv6" =>
        /\ \A l \in 0..6 : \A r \in 0..(6 - l) :
              before = Lit(l, TRUE, r, FALSE) \o <<SP>> =>
                  /\ res.st = "Ready"
                  /\ res.val = ExpectComp(l, r)
                  /\ buf = <<SP>>
        /\ before = ExComp =>
              /\ res.st = "Ready"
              /\ res.val = <<4224, 0, 0, 0, 8, 2048, 8204, 16762>>
              /\ buf = <<SP>>
        /\ before = ExCompShort =>
              /\ res.st = "Ready"
              /\ res.val = <<65281, 0, 0, 0, 0, 0, 0, 67>>
              /\ buf = <<SP>>
        /\ before = ExLoopback =>
              /\ res.st = "Ready"
              /\ res.val = <<0, 0, 0, 0, 0, 0, 0, 1>>
              /\ buf = <<SP>>
        /\ before = ExUnspecified =>
              /\ res.st = "Ready"
              /\ res.val = <<0, 0, 0, 0, 0, 0, 0, 0>>
              /\ buf = <<SP>>

C7_Witness ==
    /\ op = "ipv6"
    /\ before = Lit(2, TRUE, 3, FALSE) \o <<SP>>
    /\ res.st = "Ready"
    /\ res.val = <<1, 162, 0, 0, 0, 2819, 65535, 0>>

\* C8: parse_ipv6_addr on eight hex groups of 1-4 digits, upper or lower
\* case, separated by single ':' and followed by a delimiter is Ready with
\* the eight groups in order, the buffer left at the delimiter.
C8_Full ==
    op = "ipv6" =>
        /\ \A o \in 1..8 :
              before = GroupsText(o, 8) \o <<SP>> =>
                  /\ res.st = "Ready"
                  /\ res.val = [i \in 1..8 |-> GroupAt(o + i - 1).v]
                  /\ buf = <<SP>>
        /\ before = ExFull =>
              /\ res.st = "Ready"
              /\ res.val = <<65244, 47768, 30292, 12816,
                             65244, 47768, 30292, 12816>>
              /\ buf = <<SP>>
        /\ before = ExFullZeros =>
              /\ res.st = "Ready"
              /\ res.val = <<4224, 0, 0, 0, 8, 2048, 8204, 16762>>
              /\ buf = <<SP>>

C8_Witness ==
    /\ op = "ipv6"
    /\ before = GroupsText(3, 8) \o <<SP>>
    /\ res.st = "Ready"
    /\ res.val = <<2819, 65535, 0, 124, 13, 25, 1, 162>>

\* C9: parse_ipv6_addr tries full, compressed, full+IPv4, compressed+IPv4
\* in this order; the first alternative that is not Err decides, Ready or
\* NotReady alike, and the outcome is Err only when all four are Err.
C9_AlternativeOrder ==
    op = "ipv6" =>
        LET f == ipv6_full(before)
            c == ipv6_comp(before)
            vf == ipv6v4_full(before)
            vc == ipv6v4_comp(before)
        IN  /\ f.st # "Err" => res = f
            /\ (f.st = "Err" /\ c.st # "Err") => res = c
            /\ (f.st = "Err" /\ c.st = "Err" /\ vf.st # "Err") => res = vf
            /\ (f.st = "Err" /\ c.st = "Err" /\ vf.st = "Err"
                    /\ vc.st # "Err") => res = vc
            /\ res.st = "Err" <=>
                  (f.st = "Err" /\ c.st = "Err" /\ vf.st = "Err"
                      /\ vc.st = "Err")

\* NotReady of the IPv4 octet decoder inside the last alternative, the
\* three earlier ones having failed, is the outcome of the parse.
C9_Witness ==
    /\ op = "ipv6"
    /\ res.st = "NotReady"
    /\ ipv6_full(before).st = "Err"
    /\ ipv6_comp(before).st = "Err"
    /\ ipv6v4_full(before).st = "Err"
    /\ ipv6v4_comp(before).st = "NotReady"

Alternatives == {"full", "comp", "v4full", "v4comp"}

Alt(name, b) ==
    CASE name = "full" -> ipv6_full(b)
      [] name = "comp" -> ipv6_comp(b)
      [] name = "v4full" -> ipv6v4_full(b)
      [] name = "v4comp" -> ipv6v4_comp(b)

\* C10: on any buffer at most one of ipv6_full, ipv6_comp, ipv6v4_full and
\* ipv6v4_comp, each applied to that same buffer, is Ready.
C10_Exclusive ==
    (op \in Alternatives /\ res.st = "Ready") =>
        \A a \in Alternatives \ {op} : Alt(a, before).st # "Ready"

\* What a call drained from the front of the buffer.
Consumed == drained(before, Len(before) - Len(buf))

\* C11: in ipv6_comp_right, once a group and the ':' after it are consumed,
\* anything but a well-formed group of 1-4 hex digits behind that colon makes
\* the outcome Err; it is never Ready with the groups seen so far.
C11_RightAfterColon ==
    (op = "right" /\ res.st = "Ready" /\ Consumed # <<>>
        /\ Consumed[Len(Consumed)] = COLON)
      => u16_hexdigs(buf).st # "Err"

\* C12: parse_ipv4_addr on four decimal octets (1-3 digits, 0..255)
\* separated by '.' and followed by a non-digit byte is Ready with the four
\* values in order and leaves the buffer at the delimiter; it is Err when an
\* octet exceeds 255 or has more than 3 digits.
C12_Ipv4 ==
    op = "ipv4" =>
        /\ \A i \in 1..8 : \A j \in 1..8 : \A d \in Delims :
              before = QuadText(i, j) \o <<d>> =>
                  /\ res.st = "Ready"
                  /\ res.val = QuadVal(i, j)
                  /\ buf = <<d>>
                  /\ Consumed = QuadText(i, j)
        /\ before = ExV4 =>
              (res.st = "Ready" /\ res.val = <<127, 0, 0, 1>> /\ buf = <<SP>>)
        /\ before \in V4Bad \cup {ExV4Range} => res.st = "Err"

C12_Witness ==
    /\ op = "ipv4"
    /\ before = QuadText(8, 3) \o <<97>>
    /\ res.st = "Ready"
    /\ res.val = <<255, 10, 0, 99>>
    /\ buf = <<97>>

\* C13: parse_ipv4_addr is NotReady, the buffer unchanged, on every prefix
\* of a dotted quad that holds no byte after the digits of its last octet.
C13_Ipv4Pending ==
    (op = "ipv4" /\ rest # <<>> /\ before \o rest \in V4Good) =>
        (res.st = "NotReady" /\ buf = before)

\* "1.2.3"-like: three octets and no byte behind the digits of the third.
C13_Witness ==
    /\ op = "ipv4"
    /\ before \o rest = QuadText(2, 5) \o <<SP>>
    /\ Len(rest) = 3
    /\ res.st = "NotReady"
    /\ buf = before

\* C14: parse_ipv4_addr does not accept an octet written with a leading '0'
\* followed by further digits ("01.2.3.4 ", "1.2.3.004 "): the outcome is Err.
C14_NoLeadingZeros ==
    (op = "ipv4" /\ before \in V4ZeroLed) => res.st = "Err"

\* C15: u16_hexdigs on the lowercase or uppercase hex text of n in
\* 0..0xFFFF followed by a non-hex byte is Ready(n) with exactly the digits
\* drained; a run of five or more hex digits and a first byte that is no hex
\* digit are Err; the value never wraps or truncates.
C15_HexAccumulation ==
    op = "u16" =>
        /\ (arg.base \in {"x", "X"} /\ arg.n <= 65535) =>
              /\ res = Ready(<<arg.n>>, <<SP>>)
              /\ Consumed = NumText(arg)
        /\ (arg.base \in {"x", "X"} /\ arg.n > 65535) => res.st = "Err"
        /\ before[1] \notin HexdigTest => res.st = "Err"
        /\ res.st = "Ready" => res.val[1] \in 0..65535

C15_Witness ==
    /\ op = "u16"
    /\ arg = [n |-> 65535, base |-> "X"]
    /\ before = <<70, 70, 70, 70, SP>>
    /\ res = Ready(<<65535>>, <<SP>>)

\* C16: u8_digits on the decimal text of n in 0..255 followed by a
\* non-digit byte is Ready(n) with exactly the digits drained; a three-digit
\* run above 255, a run of four or more digits and a first byte that is no
\* digit are Err; no value computed on the way leaves its type.
C16_DecAccumulation ==
    op = "u8" =>
        /\ (arg.base = "d" /\ arg.n <= 255) =>
              /\ res = Ready(<<arg.n>>, <<SP>>)
              /\ Consumed = NumText(arg)
        /\ (arg.base = "d" /\ arg.n > 255) => res.st = "Err"
        /\ before[1] \notin DigitTest => res.st = "Err"
        /\ digits(before).st = "Ready" =>
              \A i \in DOMAIN u8_steps(digits(before).val) :
                  LET step == u8_steps(digits(before).val)[i]
                  IN  step.v >= 0 /\ step.v < 2 ^ step.w
        /\ res.st = "Ready" => res.val[1] \in 0..255

C16_Witness ==
    /\ op = "u8"
    /\ arg = [n |-> 249, base |-> "d"]
    /\ before = <<50, 52, 57, SP>>
    /\ res = Ready(<<249>>, <<SP>>)

\* C17: token::parse commits atomically: when parseop is Ready the span is
\* the first end octets of the buffer and the buffer loses exactly those, so
\* span \o buffer is the original; when parseop is NotReady or Err that
\* outcome is returned and the buffer is unchanged.  token::skip does the
\* same and returns no span.
C17_ParseCommit ==
    /\ op = "parse" =>
          /\ res.st = arg.st
          /\ arg.st = "Ready" =>
                /\ res.val = SubSeq(before, 1, arg.drain)
                /\ buf = SubSeq(before, arg.drain + 1, Len(before))
                /\ res.val \o buf = before
          /\ arg.st # "Ready" => buf = before
    /\ op = "skip_fn" =>
          /\ res.st = arg.st
          /\ res.val = <<>>
          /\ arg.st = "Ready" =>
                buf = SubSeq(before, arg.drain + 1, Len(before))
          /\ arg.st # "Ready" => buf = before

\* parseop gives up with Err after advancing the token by two octets.
C17_Witness ==
    /\ op = "parse"
    /\ arg = [drain |-> 2, st |-> "Err"]
    /\ Len(before) = 3
    /\ buf = before
    /\ res.st = "Err"

\* The operations on a live token, from Token::new to its drop.
TokenOps ==
    {"new", "first", "advance", "advance_if", "expect", "octet", "opt_octet",
     "cat", "cats", "opt_cats", "literal", "drop"}

\* C18: on one Token, 0 <= end <= length of the underlying buffer, end never
\* decreases, and the buffer is unchanged until split() or skip(); advance(n)
\* beyond the buffer is a panic, never a parse outcome.
C18_TokenOffset ==
    /\ [](tok # <<>> =>
            /\ 0 <= tok[1].end
            /\ tok[1].end <= Len(tok[1].bytes)
            /\ tok[1].bytes = before)
    /\ [](op \in TokenOps => buf = before)
    /\ [][(tok # <<>> /\ tok' # <<>>) => tok'[1].end >= tok[1].end]_vars
    /\ [](op = "advance" =>
            (res.st = "panic" <=> arg.end + arg.with > Len(before)))
    /\ [](res.st = "panic" => (op = "advance" /\ tok = <<>>))

\* cats has moved a token that stood at offset 1 to offset 3.
C18_Witness ==
    /\ op = "cats"
    /\ res.st = "Ready"
    /\ arg.end = 1
    /\ tok # <<>>
    /\ tok[1].end = 3
    /\ Len(buf) = 4

\* The octets from position from (0-based) of b on all pass test.
AllPass(b, from, test) == \A i \in (from + 1)..Len(b) : b[i] \in test

\* C19: cats and opt_cats, atop a token and on a buffer, are NotReady
\* whenever every octet from the current position to the end of the buffer
\* passes the test (no octet at all included) and Ready only after an octet
\* that fails it; when the first octet is there and fails, cats is Err and
\* opt_cats is Ready with an empty run (false / None), nothing consumed.
C19_CatsPending ==
    /\ op \in {"cats", "opt_cats"} =>
          /\ AllPass(before, arg.end, arg.with) => res.st = "NotReady"
          /\ res.st = "Ready" =>
                /\ tok[1].end < Len(before)
                /\ before[tok[1].end + 1] \notin arg.with
                /\ \A i \in (arg.end + 1)..tok[1].end : before[i] \in arg.with
          /\ (arg.end < Len(before) /\ before[arg.end + 1] \notin arg.with) =>
                /\ tok[1].end = arg.end
                /\ op = "cats" => res.st = "Err"
                /\ op = "opt_cats" => (res.st = "Ready" /\ res.val = <<FALSE>>)
    /\ op \in {"buf_cats", "buf_opt_cats"} =>
          /\ AllPass(before, 0, arg) => (res.st = "NotReady" /\ buf = before)
          /\ res.st = "Ready" =>
                /\ buf # <<>>
                /\ buf[1] \notin arg
                /\ \A i \in 1..(Len(before) - Len(buf)) : before[i] \in arg
          /\ (before # <<>> /\ before[1] \notin arg) =>
                /\ buf = before
                /\ op = "buf_cats" => res.st = "Err"
                /\ op = "buf_opt_cats" => (res.st = "Ready" /\ res.val = <<>>)

\* token::opt_cats on a token whose remaining octets all pass the test.
C19_Witness ==
    /\ op = "opt_cats"
    /\ arg.end = 1
    /\ Len(before) = 3
    /\ AllPass(before, 1, arg.with)
    /\ res.st = "NotReady"

\* Equal octets, or the two cases of one ASCII letter.
SameIgnoringCase(x, y) ==
    \/ x = y
    \/ (x >= 65 /\ x <= 90 /\ y = x + 32)
    \/ (y >= 65 /\ y <= 90 /\ x = y + 32)

\* Some available octet differs from the octet of lit at its position.
Mismatch(avail, lit) ==
    \E i \in 1..Len(lit) : i <= Len(avail) /\ ~SameIgnoringCase(avail[i], lit[i])

\* C20: literal(lit), atop a token and on a buffer, matches ASCII
\* case-insensitively: Err as soon as an available octet differs from lit
\* at its position, even with fewer than len(lit) octets available;
\* NotReady when all available octets match and there are fewer than
\* len(lit); Ready, exactly len(lit) octets advanced over or drained, when
\* the first len(lit) octets match, with no octet needed behind them.
C20_Literal ==
    /\ op = "literal" =>
          LET avail == drain_to(before, arg.end)
              lit == arg.with
          IN  /\ Mismatch(avail, lit) => (res.st = "Err" /\ tok[1].end = arg.end)
              /\ (~Mismatch(avail, lit) /\ Len(avail) < Len(lit)) =>
                    (res.st = "NotReady" /\ tok[1].end = arg.end)
              /\ (~Mismatch(avail, lit) /\ Len(avail) >= Len(lit)) =>
                    (res.st = "Ready" /\ tok[1].end = arg.end + Len(lit))
    /\ op = "buf_literal" =>
          /\ Mismatch(before, arg) => (res.st = "Err" /\ buf = before)
          /\ (~Mismatch(before, arg) /\ Len(before) < Len(arg)) =>
                (res.st = "NotReady" /\ buf = before)
          /\ (~Mismatch(before, arg) /\ Len(before) >= Len(arg)) =>
                (res.st = "Ready" /\ buf = drain_to(before, Len(arg)))

\* "a@1" matched by the last three octets "A@1" of the buffer, in the other
\* case and with nothing behind them.
C20_Witness ==
    /\ op = "literal"
    /\ arg = [end |-> 1, with |-> <<97, 64, 49>>]
    /\ Len(before) = 4
    /\ SubSeq(before, 2, 4) = <<65, 64, 49>>
    /\ res.st = "Ready"
    /\ tok[1].end = 4

\* C30: Token::advance_if and Token::expect are NotReady with the offset
\* unchanged when no octet remains behind the offset; when the test holds on
\* the next octet the offset grows by exactly 1 and the outcome is
\* Ready(true) for advance_if and Ready(()) for expect; when it fails the
\* offset is unchanged and the outcome is Ready(false) for advance_if, never
\* Err, and Err for expect.
C30_AdvanceIfExpect ==
    op \in {"advance_if", "expect"} =>
        /\ arg.end >= Len(before) =>
              (res.st = "NotReady" /\ tok[1].end = arg.end)
        /\ (arg.end < Len(before) /\ before[arg.end + 1] \in arg.with) =>
              /\ res.st = "Ready"
              /\ tok[1].end = arg.end + 1
              /\ res.val = IF op = "advance_if" THEN <<TRUE>> ELSE <<>>
        /\ (arg.end < Len(before) /\ before[arg.end + 1] \notin arg.with) =>
              /\ tok[1].end = arg.end
              /\ op = "advance_if" => (res.st = "Ready" /\ res.val = <<FALSE>>)
              /\ op = "expect" => res.st = "Err"
        /\ op = "advance_if" => res.st # "Err"

\* expect fails on the third octet of the buffer.
C30_Witness ==
    /\ op = "expect"
    /\ arg.end = 2
    /\ Len(before) = 4
    /\ before[3] \notin arg.with
    /\ res.st = "Err"
    /\ tok[1].end = 2

\* C28: whenever ipv6_comp_right is Ready with a group count of 0 it has
\* drained nothing: the buffer after the call equals the buffer before it.
C28_EmptyRightDrainsNothing ==
    (op = "right" /\ res.st = "Ready" /\ res.val[9] = 0) => buf = before

HasDoubleColon(s) ==
    \E i \in 1..(Len(s) - 1) : s[i] = COLON /\ s[i + 1] = COLON

\* C27: ipv6_comp and ipv6v4_comp are Ready only if the bytes they drained
\* contain the two-byte sequence "::".
C27_CompressionPoint ==
    (op \in {"comp", "v4comp"} /\ res.st = "Ready") => HasDoubleColon(Consumed)

\* The halves ipv6v4_comp reads from the buffer it was called on: the left
\* half, the right half behind it and the IPv4 address behind that.
V4CompLeft == ipv6_comp_left(before, 4)
V4CompRight == ipv6_comp_right(V4CompLeft.buf, 4 - V4CompLeft.val[9])
V4CompAddr == parse_ipv4_addr(V4CompRight.buf)

\* C26: when ipv6v4_comp is Ready, trailing group r[i] is in slot
\* 6 - right_count + i for every i in 0..right_count-1, the slots between
\* the leading and the trailing groups are zero, and slots 6 and 7 hold the
\* IPv4 address.
C26_V4CompPlacement ==
    (op = "v4comp" /\ res.st = "Ready") =>
        /\ \A i \in 0..(V4CompRight.val[9] - 1) :
              res.val[(6 - V4CompRight.val[9] + i) + 1] = V4CompRight.val[i + 1]
        /\ \A k \in V4CompLeft.val[9]..(5 - V4CompRight.val[9]) :
              res.val[k + 1] = 0
        /\ res.val[7] = V4CompAddr.val[1] * 256 + V4CompAddr.val[2]
        /\ res.val[8] = V4CompAddr.val[3] * 256 + V4CompAddr.val[4]

\* ----------------------------------------- parse.rs: nm_cats and escaped
Panic(b) == [st |-> "panic", val |-> <<>>, buf |-> b]

\* assert!(m > n); the first octet failing test ends the run; a run shorter
\* than n, or one with end >= m, is an error; no failing octet is NotReady.
nm_cats(b, n, m, test) ==
    IF ~(m > n) THEN Panic(b)
    ELSE The({IF end = -1 THEN NotReady(b)
              ELSE IF end < n \/ end >= m THEN Err(b)
              ELSE Ready(drained(b, end), drain_to(b, end))
              : end \in {first_failing(b, test)}})

\* A closure Fn(&[u8]) -> Poll<usize> telling the length of the unit at the
\* start of a slice: octets of single stand for themselves, an octet of
\* lead starts a two-octet unit, any other octet is an error.
\* escape_seq is the closure of the tests of parse.rs: 33, 35..91 and
\* 93..126 stand for themselves, 92 escapes the octet behind it.
escape_seq == [single |-> {33} \cup (35..91) \cup (93..126), lead |-> {92}]
plain_seq == [single |-> AlphaTest, lead |-> {}]
UnitTests == {escape_seq, plain_seq}

unit(test, slice) ==
    IF slice[1] \in test.single THEN [st |-> "Ready", val |-> 1]
    ELSE IF slice[1] \in test.lead
         THEN IF Len(slice) < 2 THEN [st |-> "NotReady", val |-> 0]
              ELSE IF slice[1] >= 32 /\ slice[1] <= 126
                   THEN [st |-> "Ready", val |-> 2]
                   ELSE [st |-> "Err", val |-> 0]
         ELSE [st |-> "Err", val |-> 0]

\* The units returned with the escaping octets taken out.
RECURSIVE escaped_unescaping_loop(_, _, _, _)
escaped_unescaping_loop(b, test, i, out) ==
    IF ~(i < Len(b)) THEN NotReady(b)
    ELSE The({IF u.st = "NotReady" THEN NotReady(b)
              ELSE IF u.st = "Ready"
                   THEN escaped_unescaping_loop(b, test, i + u.val,
                            Append(out, b[i + u.val]))
                   ELSE IF i > 0 THEN Ready(out, drain_to(b, i))
                        ELSE Err(b)
              : u \in {unit(test, drain_to(b, i))}})

escaped_unescaping(b, test) == escaped_unescaping_loop(b, test, 0, <<>>)

\* while i < buf.len() { match test(&buf[i..]) { ... } }
RECURSIVE escaped_loop(_, _, _)
escaped_loop(b, test, i) ==
    IF ~(i < Len(b)) THEN NotReady(b)
    ELSE The({IF u.st = "NotReady" THEN NotReady(b)
              ELSE IF u.st = "Ready"
                   THEN escaped_loop(b, test, i + u.val)
                   ELSE IF i > 0 THEN Ready(drained(b, i), drain_to(b, i))
                        ELSE Err(b)
              : u \in {unit(test, drain_to(b, i))}})

escaped(b, test) == escaped_loop(b, test, 0)

MaxScan == 5
MaxM == 3

\* 'a', '\', ' '
ScanAlphabet == {97, 92, SP}
ScanInputs == Strings(ScanAlphabet, MaxScan)

InitScan ==
    /\ rest \in ScanInputs
    /\ buf = <<>>
    /\ before = <<>>
    /\ op = "none"
    /\ arg = <<>>
    /\ res = NoRes
    /\ tok = <<>>

NmCats(n, m, test) ==
    CallWith("nm_cats", [n |-> n, m |-> m, test |-> test],
             nm_cats(buf, n, m, test))

Escaped(test) == CallWith("escaped", [test |-> test], escaped(buf, test))

NextScan ==
    \/ Feed
    \/ \E n \in 0..MaxM, m \in 0..MaxM, test \in Tests : NmCats(n, m, test)
    \/ \E test \in UnitTests : Escaped(test)

SpecScan == InitScan /\ [][NextScan]_vars

\* The number of octets at the start of b that all satisfy test.
RunLen(b, test) ==
    Cardinality({i \in 1..Len(b) : \A j \in 1..i : b[j] \in test})

\* C24: nm_cats(buf, n, m, test) panics unless m > n; on a run of k matching
\* octets followed by a non-matching one it is Ready with the run drained if
\* n <= k <= m and Err with the buffer unchanged if k < n or k > m; it is
\* NotReady if the run reaches the end of the buffer.
C24_NmCats ==
    op = "nm_cats" =>
        LET k == RunLen(before, arg.test)
        IN  /\ ~(arg.m > arg.n) => res.st = "panic"
            /\ (arg.m > arg.n /\ k = Len(before)) =>
                  (res.st = "NotReady" /\ buf = before)
            /\ (arg.m > arg.n /\ k < Len(before)
                    /\ arg.n <= k /\ k <= arg.m) =>
                  /\ res.st = "Ready"
                  /\ res.val = SubSeq(before, 1, k)
                  /\ buf = SubSeq(before, k + 1, Len(before))
            /\ (arg.m > arg.n /\ k < Len(before)
                    /\ (k < arg.n \/ k > arg.m)) =>
                  (res.st = "Err" /\ buf = before)

\* The offsets of b at which a unit starts when scanning from offset 0.
RECURSIVE UnitStarts(_, _, _)
UnitStarts(b, test, i) ==
    IF i >= Len(b) THEN {i}
    ELSE LET u == unit(test, SubSeq(b, i + 1, Len(b)))
         IN  IF u.st = "Ready" THEN {i} \cup UnitStarts(b, test, i + u.val)
             ELSE {i}

elem(e, b) ==
    IF Len(b) < e.width THEN NotReady(b)
    ELSE IF \A i \in 1..e.width : b[i] \in e.test
         THEN Ready(drained(b, e.width), drain_to(b, e.width))
         ELSE [st |-> "Err", val |-> <<"elem">>,
               buf |-> IF e.eats THEN drain_to(b, e.width) ELSE b]

\* The closure combine, an FnMut whose state is the items it has been given:
\* it collects the elements, is Ready with them once there are stop of
\* them (never on their number if stop is 0), fails on element number fail,
\* and answers a failed element with on_err.
combine(c, items, item) ==
    IF item.st = "Err"
    THEN IF c.on_err = "Ready" THEN [st |-> "Ready", val |-> items]
         ELSE IF c.on_err = "Err" THEN [st |-> "Err", val |-> <<"combine">>]
         ELSE [st |-> "NotReady", val |-> items]
    ELSE The({IF Len(acc) = c.fail
                  THEN [st |-> "Err", val |-> <<"combine">>]
              ELSE IF c.stop > 0 /\ Len(acc) >= c.stop
                  THEN [st |-> "Ready", val |-> acc]
              ELSE [st |-> "NotReady", val |-> acc]
              : acc \in {Append(items, item.val)}})

\* The closure error of at_least_once.
error(err) == <<"error">> \o err

\* The loop of the closure is about to run parse again.
Running(items, b) == [st |-> "running", val |-> items, buf |-> b]

\* match combine(item) { Ready(res) => return, Err(err) => return,
\* NotReady => {} } inside group(buf, ...): p is the element's outcome.
combined(orig_buf, p, d) ==
    [out |-> IF d.st = "NotReady" THEN Running(d.val, p.buf)
             ELSE group(orig_buf, [st |-> d.st, val |-> d.val, buf |-> p.buf]),
     item |-> p,
     decided |-> d.st]

\* An iteration that leaves the buffer as the element left it.
repeat_iter_no_rewind(orig_buf, items, b, e, c) ==
    The({IF p.st = "NotReady"
         THEN [out |-> NotReady(p.buf), item |-> p, decided |-> "none"]
         ELSE The({[out |-> IF d.st = "NotReady" THEN Running(d.val, p.buf)
                            ELSE [st |-> d.st, val |-> d.val, buf |-> p.buf],
                    item |-> p,
                    decided |-> d.st]
                   : d \in {combine(c, items, p)}})
         : p \in {elem(e, b)}})

\* An iteration that goes on whatever combine answers to a failed element.
repeat_iter_deaf(orig_buf, items, b, e, c) ==
    The({IF p.st = "NotReady"
         THEN [out |-> group(orig_buf, NotReady(p.buf)),
               item |-> p, decided |-> "none"]
         ELSE IF p.st = "Err"
         THEN [out |-> Running(items, p.buf), item |-> p,
               decided |-> "NotReady"]
         ELSE combined(orig_buf, p, combine(c, items, p))
         : p \in {elem(e, b)}})

\* One iteration of the loop of repeat: let item = try_result!(parse(buf));
\* match combine(item) { ... }.  orig_buf is the snapshot group took on entry.
repeat_iter(orig_buf, items, b, e, c) ==
    The({IF p.st = "NotReady"
         THEN [out |-> group(orig_buf, NotReady(p.buf)),
               item |-> p, decided |-> "none"]
         ELSE combined(orig_buf, p, combine(c, items, p))
         : p \in {elem(e, b)}})

\* A first iteration that hands a failed element to combine as repeat does.
at_least_once_first_as_repeat(orig_buf, b, e, c) ==
    repeat_iter(orig_buf, <<>>, b, e, c)

\* The first match of at_least_once: a failed element is error(err) and
\* combine is not called.
at_least_once_first(orig_buf, b, e, c) ==
    The({IF p.st = "NotReady"
         THEN [out |-> group(orig_buf, NotReady(p.buf)),
               item |-> p, decided |-> "none"]
         ELSE IF p.st = "Err"
         THEN [out |-> group(orig_buf, [st |-> "Err", val |-> error(p.val),
                                        buf |-> p.buf]),
               item |-> p, decided |-> "none"]
         ELSE combined(orig_buf, p, combine(c, <<>>, p))
         : p \in {elem(e, b)}})

\* An optional that hands the error on.
optional_propagates(r) ==
    IF r.st = "Ready" THEN Ready(<<r.val>>, r.buf) ELSE r

\* optional(buf, parse): r is the outcome of parse on the buffer; Some(v) is
\* <<v>>, None is <<>>.
optional(r) ==
    IF r.st = "NotReady" THEN NotReady(r.buf)
    ELSE IF r.st = "Ready" THEN Ready(<<r.val>>, r.buf)
    ELSE Ready(<<>>, r.buf)

MaxRep == 3
MaxWidth == 2
MaxStop == 3
\* Iterations after which a loop that has not returned is left alone.
MaxIter == MaxRep + 3

\* 'a', '1'
RepInputs == Strings({97, 49}, MaxRep)
Elems == [test : {AlphaTest}, width : 0..MaxWidth, eats : BOOLEAN]
Combines ==
    [stop : 0..MaxStop, fail : {0, 2}, on_err : {"Ready", "Err", "NotReady"}]

InitRepeat ==
    /\ rest \in RepInputs
    /\ buf = <<>>
    /\ before = <<>>
    /\ op = "none"
    /\ arg = <<>>
    /\ res = NoRes
    /\ tok = <<>>

\* The call and the first iteration.
Enter(name, e, c, r) ==
    /\ op = "none"
    /\ op' = name
    /\ before' = buf
    /\ res' = r.out
    /\ buf' = res'.buf
    /\ arg' = [parse |-> e, combine |-> c, iter |-> 1,
               item |-> r.item, decided |-> r.decided]
    /\ UNCHANGED <<rest, tok>>

Repeat(e, c) == Enter("repeat", e, c, repeat_iter(buf, <<>>, buf, e, c))

AtLeastOnce(e, c) ==
    Enter("at_least_once", e, c, at_least_once_first(buf, buf, e, c))

\* A further iteration of the loop of repeat or at_least_once.
Loop ==
    /\ op \in {"repeat", "at_least_once"}
    /\ res.st = "running"
    /\ arg.iter < MaxIter
    /\ \E r \in {repeat_iter(before, res.val, buf, arg.parse, arg.combine)} :
          /\ res' = r.out
          /\ arg' = [arg EXCEPT !.iter = @ + 1,
                                !.item = r.item, !.decided = r.decided]
    /\ buf' = res'.buf
    /\ UNCHANGED <<rest, before, op, tok>>

Optional(e) == CallWith("optional", [parse |-> e], optional(elem(e, buf)))

NextRepeat ==
    \/ Feed
    \/ \E e \in Elems, c \in Combines : Repeat(e, c)
    \/ \E e \in Elems, c \in Combines : AtLeastOnce(e, c)
    \/ Loop
    \/ \E e \in Elems : Optional(e)

SpecRepeat == InitRepeat /\ [][NextRepeat]_vars

\* A loop that can go on does go on.
SpecRepeatFair == SpecRepeat /\ WF_vars(Loop)

\* What the last iteration of a repetition led to: NotReady and the buffer
\* of entry if the element was NotReady; another iteration if combine was
\* NotReady; combine's result and the buffer as the elements left it if
\* combine was Ready; combine's error and the buffer of entry if it failed.
AsRepeat ==
    /\ arg.item.st = "NotReady" =>
          (res.st = "NotReady" /\ buf = before /\ arg.decided = "none")
    /\ arg.item.st # "NotReady" => arg.decided # "none"
    /\ arg.decided = "NotReady" => (res.st = "running" /\ buf = arg.item.buf)
    /\ arg.decided = "Ready" => (res.st = "Ready" /\ buf = arg.item.buf)
    /\ arg.decided = "Err" =>
          (res.st = "Err" /\ res.val = <<"combine">> /\ buf = before)

\* C21: repeat: an element that is NotReady makes the repetition NotReady
\* with the buffer as on entry; otherwise the element's outcome, value or
\* error, goes to combine: NotReady is another iteration, Ready(res) ends
\* with res and the buffer as consumed so far, Err(e) ends with Err(e) and
\* the buffer as on entry.
C21_Repeat ==
    op = "repeat" =>
        /\ AsRepeat
        /\ arg.iter = 1 =>
              /\ arg.item = elem(arg.parse, before)
              /\ arg.decided # "none" =>
                    arg.decided = combine(arg.combine, <<>>, arg.item).st
        /\ arg.decided = "Ready" =>
              \E before_items \in {res.val, SubSeq(res.val, 1, Len(res.val) - 1)} :
                  res.val = combine(arg.combine, before_items, arg.item).val

\* The third element is NotReady after two were consumed: everything is put
\* back.
C21_Witness ==
    /\ op = "repeat"
    /\ arg.iter = 3
    /\ arg.item.st = "NotReady"
    /\ res.st = "NotReady"
    /\ before = <<97, 97>>
    /\ buf = before

\* C22: at_least_once: a first element that fails gives Err(error(e)),
\* combine is not called and the buffer is unchanged; in every other case
\* the outcome is that of repeat.
C22_AtLeastOnce ==
    op = "at_least_once" =>
        /\ (arg.iter = 1 /\ elem(arg.parse, before).st = "Err") =>
              /\ res.st = "Err"
              /\ res.val = error(elem(arg.parse, before).val)
              /\ arg.decided = "none"
              /\ buf = before
        /\ (arg.iter = 1 /\ elem(arg.parse, before).st # "Err") =>
              /\ res = repeat_iter(before, <<>>, before,
                                   arg.parse, arg.combine).out
              /\ buf = res.buf
        /\ arg.iter > 1 => AsRepeat

C22_Witness ==
    /\ op = "at_least_once"
    /\ arg.iter = 1
    /\ arg.parse.eats
    /\ arg.combine.on_err = "Ready"
    /\ before = <<49, 97>>
    /\ res.st = "Err"
    /\ res.val = <<"error", "elem">>
    /\ buf = before

\* C23: optional is never Err: Ready(Some(v)) when the rule is Ready(v),
\* Ready(None) when the rule fails, NotReady when the rule is NotReady; the
\* buffer is as the rule left it.
C23_Optional ==
    op = "optional" =>
        LET r == elem(arg.parse, before)
        IN  /\ res.st # "Err"
            /\ r.st = "Ready" => (res.st = "Ready" /\ res.val = <<r.val>>)
            /\ r.st = "Err" => (res.st = "Ready" /\ res.val = <<>>)
            /\ r.st = "NotReady" => res.st = "NotReady"
            /\ buf = r.buf

C23_Witness ==
    /\ op = "optional"
    /\ arg.parse.width = 1
    /\ before = <<49, 97>>
    /\ res.st = "Ready"
    /\ res.val = <<>>

\* Each Ready element drains at least one octet, and combine is Ready or Err
\* whenever it is handed a failed element.
Progresses ==
    /\ op \in {"repeat", "at_least_once"}
    /\ arg.parse.width >= 1
    /\ arg.combine.on_err # "NotReady"

\* C29: under these two conditions repeat and at_least_once return, after at
\* most as many iterations as the buffer is long plus one.
C29_Termination ==
    /\ [](Progresses => arg.iter <= Len(before) + 1)
    /\ (Progresses ~> res.st # "running")

\* One element per octet, and the element behind the last octet is NotReady.
C29_Witness ==
    /\ Progresses
    /\ op = "at_least_once"
    /\ Len(before) >= 2
    /\ arg.iter = Len(before) + 1
    /\ res.st = "NotReady"

====
